---- MODULE Spec2Model ----
(***************************************************************************)
(* AegisCrypt: share-link access control (ShareService / ShareLink) and    *)
(* the Merkle integrity engine (MerkleTree / IntegrityService).            *)
(***************************************************************************)
EXTENDS Integers, Sequences, FiniteSets, TLC

(* ------------------------------ bounds -------------------------------- *)
NumRequests == 2
MaxTime == 2
MaxHours == 1
MaxLimit == 1
MaxLen == 5
MaxChunkSize == 2
MaxTextLen == 2
MaxUpdates == 1
MaxClock == 5
MaxBurst == 10
NumThreads == 2
RateLimit == 1

(* --------------------------- value domains ---------------------------- *)
\* Python None for the optional integer columns / arguments
None == -1

\* the model follows one record: nothing is ordered between unrelated records
Tokens == {1}
Requests == 1..NumRequests

\* passwords a caller can supply; NoPassword is Python None
NoPassword == "None"
Passwords == {NoPassword, "", "p@ss", "wrong"}

\* Python truthiness of an Optional[int]
TruthyInt(x) == x # None /\ x # 0

\* Python truthiness of an Optional[str]
TruthyStr(s) == s # NoPassword /\ s # ""

VARIABLES
    now,        \* the wall clock read by datetime.utcnow() / datetime.now()
    links,      \* the share_links table, by share_token
    created,    \* history: tokens for which a row was ever inserted
    returned,   \* history: per token, decrypt_share calls that returned content
    pc,         \* per request: position in the decrypt endpoint
    rtoken,     \* per request: the token of the URL
    rpw,        \* per request: the password of the body
    snap,       \* per request: the ShareLink object loaded into its session
    outcome,    \* per request: the message raised, or "content"
    reached,    \* history: per request, the stages of decrypt_share entered
    revoked     \* history: tokens deactivate_share returned True for

shareVars == <<now, links, created, returned, pc, rtoken, rpw, snap, outcome,
               reached, revoked>>

VARIABLES
    data,           \* MerkleTree.data
    chunk_size,     \* MerkleTree.chunk_size
    chunks,         \* MerkleTree.chunks
    m_pc,           \* position: "build", "built", "proved", "tampered", "verified"
    current_level,  \* _build_tree: current_level
    tree_levels,    \* _build_tree: tree_levels
    rounds,         \* history: iterations of the while loop of _build_tree
    tree,           \* MerkleTree.tree
    root,           \* MerkleTree.root
    proof,          \* the MerkleProof handed to verify_proof
    chunk_data,     \* the chunk bytes handed to verify_proof
    tamper,         \* history: how the proof or the chunk deviates, "none" if not
    tamper_at,      \* history: the sibling entry that deviates
    verify_result   \* what verify_proof returned

merkleVars == <<data, chunk_size, chunks, m_pc, current_level, tree_levels,
                rounds, tree, root, proof, chunk_data, tamper, tamper_at,
                verify_result>>

VARIABLES
    p_pc,       \* position: "fresh", "encrypted", "tampered", "decrypted"
    p_alg,      \* the function pair called: "aes", "chacha20", "hybrid"
    p_plain,    \* the plaintext handed to the encrypt function
    p_enc,      \* the decrypt arguments as the encrypt function produced them
    p_args,     \* the arguments handed to the decrypt function
    p_tamper,   \* history: how p_args deviates from p_enc, "none" if not
    p_out       \* what the decrypt function returned or raised

primVars == <<p_pc, p_alg, p_plain, p_enc, p_args, p_tamper, p_out>>

VARIABLES
    share_link,     \* a share_links row with its cryptographic columns
    share_content,  \* history: the content handed to create_share_link
    share_tamper,   \* history: the stored column changed since, "none" if not
    share_out       \* what decrypt_share returned or raised

vaultVars == <<share_link, share_content, share_tamper, share_out>>

VARIABLES
    policies,       \* the encryption_policies table, by sensitivity_level
    updates_done,   \* history: number of update_policy calls
    instances,      \* number of EncryptionService objects constructed
    data_item,      \* a data_items row
    item_policy,    \* history: the policy encrypt_and_store resolved
    item_tamper,    \* history: the stored column changed since, "none" if not
    encrypt_out,    \* what encrypt_and_store returned or raised
    decrypt_out     \* what decrypt_data returned or raised

encVars == <<policies, updates_done, instances, data_item, item_policy,
             item_tamper, encrypt_out, decrypt_out>>

VARIABLES
    a_user,     \* current_user of the decrypt request
    a_item,     \* the data_items row the request names
    a_out       \* the status of the response; decrypt_data called or not

authVars == <<a_user, a_item, a_out>>

VARIABLES
    l_now,            \* the clock read by datetime.now(), in minutes
    failed_attempts,  \* AdaptiveRateLimiter.failed_attempts, by email
    blocked,          \* AdaptiveRateLimiter.blocked, by email or IP
    whitelist,        \* AdaptiveRateLimiter.whitelist
    suspicious_ips,   \* AdaptiveRateLimiter.suspicious_ips, by IP and operation
    lock,             \* AdaptiveRateLimiter.lock: the thread holding it
    t_pc,             \* per thread: position in check_ip_rate
    t_call,           \* per thread: ip_address, operation and now of its call
    l_out,            \* what the last check_login_attempt returned
    fails_now,        \* history: per email, failed attempts made this minute
    allowed_calls     \* history: by IP and operation, times of allowed calls

limVars == <<l_now, failed_attempts, blocked, whitelist, suspicious_ips, lock,
             t_pc, t_call, l_out, fails_now, allowed_calls>>

nonShareVars == <<merkleVars, primVars, vaultVars, encVars, authVars, limVars>>
nonMerkleVars == <<shareVars, primVars, vaultVars, encVars, authVars, limVars>>
nonPrimVars == <<shareVars, merkleVars, vaultVars, encVars, authVars, limVars>>
nonVaultVars == <<shareVars, merkleVars, primVars, encVars, authVars, limVars>>
nonEncVars == <<shareVars, merkleVars, primVars, vaultVars, authVars, limVars>>
nonAuthVars == <<shareVars, merkleVars, primVars, vaultVars, encVars, limVars>>
nonLimVars == <<shareVars, merkleVars, primVars, vaultVars, encVars, authVars>>

vars == <<shareVars, merkleVars, primVars, vaultVars, encVars, authVars,
          limVars>>

(* ----------------------------- ShareLink ------------------------------ *)
\* PBKDF2-HMAC-SHA256(password, salt, 600000): a collision-free function of
\* (password, salt)
Pbkdf2(password, salt) == <<password, salt>>

NoPasswordHash == [set |-> FALSE, salt |-> 0, key |-> <<NoPassword, 0>>]

\* base64(salt + key) with a fresh salt (one salt value per row)
HashPassword(password, salt) ==
    [set |-> TRUE, salt |-> salt, key |-> Pbkdf2(password, salt)]

VerifyPassword(password, password_hash) ==
    Pbkdf2(password, password_hash.salt) = password_hash.key

NoLink ==
    [exists |-> FALSE, is_active |-> FALSE, expiration_time |-> None,
     max_downloads |-> None, download_count |-> 0, last_accessed |-> None,
     password_hash |-> NoPasswordHash]

IsExpired(l, t) ==
    IF l.expiration_time = None THEN FALSE ELSE t > l.expiration_time

\* mutant: the limit counts as reached only once it is exceeded
IsDownloadLimitReached_Exceeded(l) ==
    IF ~TruthyInt(l.max_downloads) THEN FALSE
    ELSE l.download_count > l.max_downloads

IsDownloadLimitReached(l) ==
    IF ~TruthyInt(l.max_downloads) THEN FALSE
    ELSE l.download_count >= l.max_downloads

CanAccess(l, t) ==
    l.is_active /\ ~IsExpired(l, t) /\ ~IsDownloadLimitReached(l)

(* ---------------------------- ShareService ---------------------------- *)
NewShareLink(password, expiration_hours, max_downloads, salt, t) ==
    [exists |-> TRUE,
     is_active |-> TRUE,
     expiration_time |-> IF TruthyInt(expiration_hours)
                         THEN t + expiration_hours ELSE None,
     max_downloads |-> max_downloads,
     download_count |-> 0,
     last_accessed |-> None,
     password_hash |-> IF TruthyStr(password)
                       THEN HashPassword(password, salt) ELSE NoPasswordHash]

ReqUnchanged == UNCHANGED <<pc, rtoken, rpw, snap, outcome, reached, nonShareVars>>

Tick ==
    /\ now < MaxTime
    /\ now' = now + 1
    /\ UNCHANGED <<links, created, returned, revoked>>
    /\ ReqUnchanged

create_share_link ==
    \E t \in Tokens, p \in {NoPassword, "", "p@ss"},
       h \in {None} \cup (0..MaxHours), m \in {None} \cup (0..MaxLimit) :
        /\ t \notin created
        /\ \A u \in Tokens : u < t => u \in created
        /\ links' = [links EXCEPT ![t] = NewShareLink(p, h, m, t, now)]
        /\ created' = created \cup {t}
        /\ UNCHANGED <<now, returned, revoked>>
        /\ ReqUnchanged

\* the end of a request: the response or the HTTPException is sent, get_db
\* closes the session and the loaded object and the arguments are dropped
Finish(r, message) ==
    /\ pc' = [pc EXCEPT ![r] = "done"]
    /\ outcome' = [outcome EXCEPT ![r] = message]
    /\ snap' = [snap EXCEPT ![r] = NoLink]
    /\ rpw' = [rpw EXCEPT ![r] = NoPassword]

\* the endpoint's query: get_share_by_token, 404 when there is no row
get_share_by_token(r) ==
    \E t \in Tokens, p \in Passwords :
        /\ pc[r] = "idle"
        /\ \A q \in Requests : q < r => pc[q] # "idle"
        /\ rtoken' = [rtoken EXCEPT ![r] = t]
        /\ IF links[t].exists
           THEN /\ snap' = [snap EXCEPT ![r] = links[t]]
                /\ rpw' = [rpw EXCEPT ![r] = p]
                /\ pc' = [pc EXCEPT ![r] = "gate"]
                /\ UNCHANGED outcome
           ELSE Finish(r, "Share link not found")
        /\ UNCHANGED <<now, links, created, returned, reached, revoked, nonShareVars>>

\* mutant: a supplied password is not compared with the stored hash
PasswordGate_Unverified(l, password) ==
    IF l.password_hash.set /\ ~TruthyStr(password)
    THEN "Password required"
    ELSE "none"

\* decrypt_share, lines 221-225: the message raised by the password gate,
\* "none" when the call goes on to decrypt
PasswordGate(l, password) ==
    IF l.password_hash.set /\ ~TruthyStr(password)
    THEN "Password required"
    ELSE IF l.password_hash.set /\ ~VerifyPassword(password, l.password_hash)
    THEN "Incorrect password"
    ELSE "none"

\* decrypt_share, lines 220-257, entered by request r: the password gate, then
\* aes_decrypt, verify_hash and the Merkle check, all on the session's object
PasswordAndDecrypt(r) ==
    IF PasswordGate(snap[r], rpw[r]) # "none"
    THEN /\ Finish(r, PasswordGate(snap[r], rpw[r]))
         /\ reached' = [reached EXCEPT ![r] = @ \cup {"password"}]
    ELSE /\ pc' = [pc EXCEPT ![r] = "increment"]
         /\ reached' = [reached EXCEPT ![r] = @ \cup {"password", "decrypt"}]
         /\ UNCHANGED <<outcome, snap, rpw>>

\* decrypt_share, line 212 (can_access is true) to line 257
decrypt_share_granted(r) ==
    /\ pc[r] = "gate"
    /\ CanAccess(snap[r], now)
    /\ PasswordAndDecrypt(r)
    /\ UNCHANGED <<now, links, created, returned, rtoken, revoked, nonShareVars>>

\* decrypt_share, line 212 (can_access is false)
decrypt_share_denied(r) ==
    /\ pc[r] = "gate"
    /\ ~CanAccess(snap[r], now)
    /\ pc' = [pc EXCEPT ![r] = "denied"]
    /\ reached' = [reached EXCEPT ![r] = @ \cup {"denied"}]
    /\ UNCHANGED <<now, links, created, returned, rtoken, rpw, snap, outcome,
                   revoked, nonShareVars>>

\* mutant: the raise for an inactive link is missing
decrypt_share_reason_TwoRaises(r) ==
    /\ pc[r] = "denied"
    /\ IF IsExpired(snap[r], now)
       THEN Finish(r, "Share link has expired") /\ UNCHANGED reached
       ELSE IF IsDownloadLimitReached(snap[r])
       THEN Finish(r, "Download limit reached") /\ UNCHANGED reached
       ELSE PasswordAndDecrypt(r)
    /\ UNCHANGED <<now, links, created, returned, rtoken, revoked, nonShareVars>>

\* decrypt_share, lines 213-218: the three raises; a call that matches none of
\* them goes on with line 220
decrypt_share_reason(r) ==
    /\ pc[r] = "denied"
    /\ IF IsExpired(snap[r], now)
       THEN Finish(r, "Share link has expired") /\ UNCHANGED reached
       ELSE IF IsDownloadLimitReached(snap[r])
       THEN Finish(r, "Download limit reached") /\ UNCHANGED reached
       ELSE IF ~snap[r].is_active
       THEN Finish(r, "Share link is no longer active") /\ UNCHANGED reached
       ELSE PasswordAndDecrypt(r)
    /\ UNCHANGED <<now, links, created, returned, rtoken, revoked, nonShareVars>>

\* increment_download_count on the session's object, then commit: the UPDATE
\* carries the values computed from the loaded object
IncrementedRow(row, loaded, t) ==
    [row EXCEPT !.download_count = loaded.download_count + 1,
                !.last_accessed = t]

\* decrypt_share, lines 260-274
increment_download_count(r) ==
    /\ pc[r] = "increment"
    /\ reached' = [reached EXCEPT ![r] = @ \cup {"increment"}]
    /\ links' = [links EXCEPT ![rtoken[r]] = IncrementedRow(@, snap[r], now)]
    /\ returned' = [returned EXCEPT ![rtoken[r]] = @ + 1]
    /\ Finish(r, "content")
    /\ UNCHANGED <<now, created, rtoken, revoked, nonShareVars>>

\* mutant: the query does not filter on is_active
ExpiredShares_AnyState(tbl, t) ==
    {k \in Tokens : /\ tbl[k].exists
                    /\ tbl[k].expiration_time # None
                    /\ tbl[k].expiration_time < t}

ExpiredShares(tbl, t) ==
    {k \in Tokens : /\ tbl[k].exists
                    /\ tbl[k].is_active
                    /\ tbl[k].expiration_time # None
                    /\ tbl[k].expiration_time < t}

\* cleanup_expired_shares, line 301: count = len(expired_shares), returned
CleanupCount(tbl, t) == Cardinality(ExpiredShares(tbl, t))

\* mutant: the sweep deletes the expired rows
CleanedUp_Delete(tbl, t) ==
    [k \in Tokens |-> IF k \in ExpiredShares(tbl, t) THEN NoLink ELSE tbl[k]]

CleanedUp(tbl, t) ==
    [k \in Tokens |-> IF k \in ExpiredShares(tbl, t)
                      THEN [tbl[k] EXCEPT !.is_active = FALSE] ELSE tbl[k]]

cleanup_expired_shares ==
    /\ links' = CleanedUp(links, now)
    /\ UNCHANGED <<now, created, returned, revoked>>
    /\ ReqUnchanged

Deactivated(tbl, t) ==
    IF tbl[t].exists THEN [tbl EXCEPT ![t].is_active = FALSE] ELSE tbl

deactivate_share ==
    \E t \in Tokens :
        /\ links' = Deactivated(links, t)
        /\ revoked' = IF links[t].exists THEN revoked \cup {t} ELSE revoked
        /\ UNCHANGED <<now, created, returned>>
        /\ ReqUnchanged

(* ----------------------------- MerkleTree ------------------------------ *)
ByteValues == {0, 1}

\* IntegrityService.DEFAULT_CHUNK_SIZE
DEFAULT_CHUNK_SIZE == 4096

\* the buffers of at most MaxLen bytes
Buffers == UNION {[1..n -> ByteValues] : n \in 0..MaxLen}

\* the chunk byte strings a caller can hand to verify_proof
ChunkValues == UNION {[1..n -> ByteValues] : n \in 0..MaxChunkSize}

Min(a, b) == IF a <= b THEN a ELSE b

\* SHA-256 taken as collision-free: a digest stands for the bytes hashed.
\* EmptyStr is the string "" (the root of a tree without chunks).
EmptyStr == [str |-> "", bytes |-> <<>>, kids |-> <<>>]

\* hashlib.sha256(data).hexdigest()
Hash(bytes) == [str |-> "hex", bytes |-> bytes, kids |-> <<>>]

\* sha256((left + right).encode('utf-8')).hexdigest(): the digest of the
\* 128 characters of the two hex strings
HashPair(left, right) == [str |-> "hex", bytes |-> <<>>, kids |-> <<left, right>>]

\* mutant: only the full chunks are kept, a short tail is dropped
SplitIntoChunks_DropTail(buf, size) ==
    [k \in 1..(Len(buf) \div size) |->
        SubSeq(buf, (k - 1) * size + 1, k * size)]

\* range(0, len(data), chunk_size), data[i:i + chunk_size]
SplitIntoChunks(buf, size) ==
    [k \in 1..((Len(buf) + size - 1) \div size) |->
        SubSeq(buf, (k - 1) * size + 1, Min(k * size, Len(buf)))]

\* mutant: a leaf covers the first byte of its chunk only
LeafLevel_FirstByte(cs) == [k \in 1..Len(cs) |-> Hash(SubSeq(cs[k], 1, 1))]

\* _build_tree, line 80: [self._hash(chunk) for chunk in self.chunks]
LeafLevel(cs) == [k \in 1..Len(cs) |-> Hash(cs[k])]

\* mutant: the lone last node of an odd level is promoted unchanged
NextLevel_PromoteOdd(level) ==
    [j \in 1..((Len(level) + 1) \div 2) |->
        IF 2 * j <= Len(level)
        THEN HashPair(level[2 * j - 1], level[2 * j])
        ELSE level[2 * j - 1]]

\* _build_tree, lines 84-95: one pass of the pairing loop
NextLevel(level) ==
    [j \in 1..((Len(level) + 1) \div 2) |->
        IF 2 * j <= Len(level)
        THEN HashPair(level[2 * j - 1], level[2 * j])
        ELSE HashPair(level[2 * j - 1], level[2 * j - 1])]

\* _build_tree, lines 100-103: the levels in reverse order, root first
RECURSIVE Flatten(_)
Flatten(levels) ==
    IF levels = <<>> THEN <<>>
    ELSE levels[Len(levels)] \o Flatten(SubSeq(levels, 1, Len(levels) - 1))

\* mutant: the sibling of a right child is recorded as being on the right
SiblingEntry_AlwaysRight(level, idx) ==
    IF idx % 2 = 0
    THEN IF idx + 1 < Len(level)
         THEN [hash |-> level[idx + 2], position |-> "right"]
         ELSE [hash |-> level[idx + 1], position |-> "right"]
    ELSE [hash |-> level[idx], position |-> "right"]

\* generate_proof, lines 137-151: the entry for the node at 0-based index idx
SiblingEntry(level, idx) ==
    IF idx % 2 = 0
    THEN IF idx + 1 < Len(level)
         THEN [hash |-> level[idx + 2], position |-> "right"]
         ELSE [hash |-> level[idx + 1], position |-> "right"]
    ELSE [hash |-> level[idx], position |-> "left"]

\* generate_proof, lines 154-160: its own copy of the pairing loop
ProofNextLevel(level) ==
    [j \in 1..((Len(level) + 1) \div 2) |->
        IF 2 * j <= Len(level)
        THEN HashPair(level[2 * j - 1], level[2 * j])
        ELSE HashPair(level[2 * j - 1], level[2 * j - 1])]

\* generate_proof, lines 135-163: the while loop
RECURSIVE SiblingPath(_, _)
SiblingPath(level, idx) ==
    IF Len(level) > 1
    THEN <<SiblingEntry(level, idx)>>
            \o SiblingPath(ProofNextLevel(level), idx \div 2)
    ELSE <<>>

GenerateProof(cs, idx, root_hash) ==
    [chunk_index |-> idx,
     chunk_hash |-> Hash(cs[idx + 1]),
     sibling_hashes |-> SiblingPath(LeafLevel(cs), idx),
     root_hash |-> root_hash]

\* verify_proof, lines 192-203: the fold over the sibling entries
RECURSIVE FoldPath(_, _)
FoldPath(current_hash, siblings) ==
    IF siblings = <<>> THEN current_hash
    ELSE FoldPath(IF Head(siblings).position = "left"
                  THEN HashPair(Head(siblings).hash, current_hash)
                  ELSE HashPair(current_hash, Head(siblings).hash),
                  Tail(siblings))

\* mutant: the fold starts from the proof's chunk_hash, the chunk is not hashed
VerifyProof_TrustsProof(pr, bytes) ==
    FoldPath(pr.chunk_hash, pr.sibling_hashes) = pr.root_hash

VerifyProof(pr, bytes) ==
    IF Hash(bytes) # pr.chunk_hash THEN FALSE
    ELSE FoldPath(Hash(bytes), pr.sibling_hashes) = pr.root_hash

\* _build_tree, lines 83-98: the while loop run to its end
RECURSIVE TopLevel(_)
TopLevel(level) == IF Len(level) > 1 THEN TopLevel(NextLevel(level)) ELSE level

\* MerkleTree(buf, size).root: "" without chunks, else the single top node
MerkleRoot(buf, size) ==
    IF SplitIntoChunks(buf, size) = <<>> THEN EmptyStr
    ELSE TopLevel(LeafLevel(SplitIntoChunks(buf, size)))[1]

\* IntegrityService.verify_integrity: a new tree over content, roots compared
VerifyIntegrity(content, expected_root, size) ==
    MerkleRoot(content, size) = expected_root

\* get_tree_info: ceil(log2(num_chunks)) if num_chunks > 0 else 0
CeilLog2(n) == CHOOSE k \in 0..n : 2 ^ k >= n /\ (k = 0 \/ 2 ^ (k - 1) < n)

TreeHeight(n) == IF n > 0 THEN CeilLog2(n) ELSE 0

NoProof ==
    [chunk_index |-> 0, chunk_hash |-> EmptyStr, sibling_hashes |-> <<>>,
     root_hash |-> EmptyStr]

\* MerkleTree.__init__ up to the loop of _build_tree, for the buffer buf
MerkleInit(buf, size) ==
    /\ data = buf
    /\ chunk_size = size
    /\ chunks = SplitIntoChunks(buf, size)
    /\ current_level = LeafLevel(SplitIntoChunks(buf, size))
    /\ tree_levels = IF buf = <<>> THEN <<>>
                     ELSE <<LeafLevel(SplitIntoChunks(buf, size))>>
    /\ rounds = 0
    /\ tree = <<>>
    /\ root = EmptyStr
    /\ m_pc = IF buf = <<>> THEN "built" ELSE "build"
    /\ proof = NoProof
    /\ chunk_data = <<>>
    /\ tamper = "none"
    /\ tamper_at = 0
    /\ verify_result = FALSE

\* _build_tree, lines 83-98: one iteration of the while loop
build_round ==
    /\ m_pc = "build"
    /\ Len(current_level) > 1
    /\ current_level' = NextLevel(current_level)
    /\ tree_levels' = Append(tree_levels, NextLevel(current_level))
    /\ rounds' = rounds + 1
    /\ UNCHANGED <<data, chunk_size, chunks, m_pc, tree, root, proof,
                   chunk_data, tamper, tamper_at, verify_result, nonMerkleVars>>

\* _build_tree, lines 100-105, and __init__, line 50
build_finish ==
    /\ m_pc = "build"
    /\ ~(Len(current_level) > 1)
    /\ tree' = Flatten(tree_levels)
    /\ root' = IF Flatten(tree_levels) # <<>> THEN Flatten(tree_levels)[1]
               ELSE EmptyStr
    /\ m_pc' = "built"
    /\ UNCHANGED <<data, chunk_size, chunks, current_level, tree_levels, rounds,
                   proof, chunk_data, tamper, tamper_at, verify_result,
                   nonMerkleVars>>

\* generate_proof(i) for a valid index; the caller keeps chunks[i] to verify
generate_proof ==
    \E i \in 0..(Len(chunks) - 1) :
        /\ m_pc = "built"
        /\ proof' = GenerateProof(chunks, i, root)
        /\ chunk_data' = chunks[i + 1]
        /\ m_pc' = "proved"
        /\ UNCHANGED <<data, chunk_size, chunks, current_level, tree_levels,
                       rounds, tree, root, tamper, tamper_at, verify_result,
                       nonMerkleVars>>

\* the caller hands over other chunk bytes
wrong_chunk ==
    \E b \in ChunkValues :
        /\ m_pc = "proved"
        /\ b # chunk_data
        /\ chunk_data' = b
        /\ tamper' = "chunk"
        /\ m_pc' = "tampered"
        /\ UNCHANGED <<data, chunk_size, chunks, current_level, tree_levels,
                       rounds, tree, root, proof, tamper_at, verify_result,
                       nonMerkleVars>>

OtherSide(position) == IF position = "left" THEN "right" ELSE "left"

\* the caller hands over a proof with the side of one entry swapped
swapped_side ==
    \E k \in 1..Len(proof.sibling_hashes) :
        /\ m_pc = "proved"
        /\ proof' = [proof EXCEPT !.sibling_hashes[k].position = OtherSide(@)]
        /\ tamper' = "side"
        /\ tamper_at' = k
        /\ m_pc' = "tampered"
        /\ UNCHANGED <<data, chunk_size, chunks, current_level, tree_levels,
                       rounds, tree, root, chunk_data, verify_result,
                       nonMerkleVars>>

\* the caller hands over a proof with the hash of one entry replaced
altered_hash ==
    \E k \in 1..Len(proof.sibling_hashes),
       h \in {tree[n] : n \in 1..Len(tree)} \cup {Hash(<<>>), EmptyStr} :
        /\ m_pc = "proved"
        /\ h # proof.sibling_hashes[k].hash
        /\ proof' = [proof EXCEPT !.sibling_hashes[k].hash = h]
        /\ tamper' = "hash"
        /\ tamper_at' = k
        /\ m_pc' = "tampered"
        /\ UNCHANGED <<data, chunk_size, chunks, current_level, tree_levels,
                       rounds, tree, root, chunk_data, verify_result,
                       nonMerkleVars>>

verify_proof ==
    /\ m_pc \in {"proved", "tampered"}
    /\ verify_result' = VerifyProof(proof, chunk_data)
    /\ m_pc' = "verified"
    /\ UNCHANGED <<data, chunk_size, chunks, current_level, tree_levels, rounds,
                   tree, root, proof, chunk_data, tamper, tamper_at,
                   nonMerkleVars>>

(* ------------------------- core/crypto.py ----------------------------- *)
\* the code points a text is made of: "A" (one UTF-8 byte) and U+00E9 (two)
Chars == {65, 233}

\* the texts (Python str) and contents (Python bytes) of at most MaxTextLen
Texts == UNION {[1..n -> Chars] : n \in 0..MaxTextLen}

\* the texts handed to encrypt_and_store: EncryptionRequest.text, min_length=1
ItemTexts == {t \in Texts : Len(t) >= 1}

\* the outcome of a call: a returned value or a raised exception
NoError == [type |-> "", msg |-> ""]
Return(v) == [ok |-> TRUE, value |-> v, error |-> NoError]
Raise(t, m) == [ok |-> FALSE, value |-> <<>>, error |-> [type |-> t, msg |-> m]]

\* mutant: every code point is written as one byte
Utf8Char_OneByte(c) == <<c % 256>>

\* str.encode('utf-8'): one byte below U+0080, two bytes below U+0800
Utf8Char(c) == IF c < 128 THEN <<c>> ELSE <<192 + (c \div 64), 128 + (c % 64)>>

RECURSIVE Utf8Encode(_)
Utf8Encode(text) ==
    IF text = <<>> THEN <<>> ELSE Utf8Char(Head(text)) \o Utf8Encode(Tail(text))

\* bytes.decode('utf-8'): value is the text, or UnicodeDecodeError is raised
RECURSIVE Utf8Decode(_)
Utf8Decode(bytes) ==
    IF bytes = <<>> THEN Return(<<>>)
    ELSE IF bytes[1] < 128
    THEN LET rest == Utf8Decode(Tail(bytes))
         IN IF rest.ok THEN Return(<<bytes[1]>> \o rest.value) ELSE rest
    ELSE IF /\ bytes[1] \in 194..223
            /\ Len(bytes) >= 2
            /\ bytes[2] \in 128..191
    THEN LET rest == Utf8Decode(SubSeq(bytes, 3, Len(bytes)))
         IN IF rest.ok
            THEN Return(<<(bytes[1] - 192) * 64 + (bytes[2] - 128)>> \o rest.value)
            ELSE rest
    ELSE Raise("UnicodeDecodeError", "invalid utf-8")

\* bytes.decode('latin-1'): byte value b is code point b
Latin1Decode(bytes) == [i \in 1..Len(bytes) |-> bytes[i]]

\* str.encode('latin-1'): code points above U+00FF cannot be encoded
Latin1Encode(text) ==
    IF \A i \in 1..Len(text) : text[i] < 256
    THEN Return([i \in 1..Len(text) |-> text[i]])
    ELSE Raise("UnicodeEncodeError", "ordinal not in range(256)")

\* base64.b64encode(x).decode('utf-8'): a string stands for the bytes it
\* decodes to and for the value of the bits of its last character that carry
\* no data (zero in the string b64encode writes)
B64Encode(bytes) == [bytes |-> bytes, slack |-> 0]

\* base64.b64decode(s): the bits that carry no data are ignored
B64Decode(s) == s.bytes

\* the strings other than s that decode to the bytes of s
B64Respellings(s) ==
    IF Len(s.bytes) % 3 = 0 THEN {}
    ELSE {[s EXCEPT !.slack = k] : k \in {0, 1}} \ {s}

\* generate_aes_key(key_size): os.urandom(key_size // 8), id names the draw
NoKey == [id |-> 0, bits |-> 0]
generate_aes_key(key_size, id) == [id |-> id, bits |-> key_size]

\* the tag is the last 16 bytes of what the AEAD cipher returns
TagLen == 16

\* AESGCM / ChaCha20Poly1305 taken as ideal: byte i of the ciphertext stands
\* for byte i of the plaintext under (cipher, key, nonce), the tag bytes stand
\* for the whole message under (cipher, key, nonce)
\* cipher.encrypt(nonce, plaintext_bytes, None): ciphertext followed by tag
Seal(cipher, key, nonce, pt) ==
    [i \in 1..Len(pt) |->
        [kind |-> "ct", cipher |-> cipher, key |-> key, nonce |-> nonce,
         pos |-> i, val |-> pt[i], over |-> <<>>]]
    \o [j \in 1..TagLen |->
        [kind |-> "tag", cipher |-> cipher, key |-> key, nonce |-> nonce,
         pos |-> j, val |-> 0, over |-> pt]]

\* cipher.decrypt(nonce, ciphertext_and_tag, None): InvalidTag unless the
\* input is what encrypt returns for some plaintext under (key, nonce)
Open(cipher, key, nonce, sealed) ==
    IF Len(sealed) < TagLen THEN Raise("InvalidTag", "")
    ELSE LET pt == [i \in 1..(Len(sealed) - TagLen) |-> sealed[i].val]
         IN IF sealed = Seal(cipher, key, nonce, pt)
            THEN Return(pt) ELSE Raise("InvalidTag", "")

NoB64 == [bytes |-> <<>>, slack |-> -1]

\* the body shared by aes_encrypt and chacha20_encrypt: key is NoKey when the
\* caller passed none, fresh is the key generate_aes_key(256) then draws
AeadEncrypt(cipher, name, plaintext, key, fresh, nonce) ==
    LET k == IF key = NoKey THEN fresh ELSE key
        ciphertext_and_tag == Seal(cipher, k, nonce, Utf8Encode(plaintext))
        n == Len(ciphertext_and_tag) - TagLen
    IN [ciphertext |-> B64Encode(SubSeq(ciphertext_and_tag, 1, n)),
        nonce |-> B64Encode(<<nonce>>),
        tag |-> B64Encode(SubSeq(ciphertext_and_tag, n + 1,
                                 Len(ciphertext_and_tag))),
        algorithm |-> name,
        key |-> IF key = NoKey THEN B64Encode(<<k>>) ELSE NoB64]

\* the body shared by aes_decrypt and chacha20_decrypt
AeadDecrypt(cipher, ciphertext, key, nonce, tag) ==
    LET ciphertext_and_tag == B64Decode(ciphertext) \o B64Decode(tag)
        opened == Open(cipher, key, B64Decode(nonce)[1], ciphertext_and_tag)
    IN IF opened.ok THEN Utf8Decode(opened.value)
       ELSE Raise("ValueError",
                  "Authentication failed: data may have been tampered with")

aes_encrypt(plaintext, key, fresh, nonce) ==
    AeadEncrypt("AES-GCM", "AES-256-GCM", plaintext, key, fresh, nonce)

aes_decrypt(ciphertext, key, nonce, tag) ==
    AeadDecrypt("AES-GCM", ciphertext, key, nonce, tag)

chacha20_encrypt(plaintext, key, fresh, nonce) ==
    AeadEncrypt("ChaCha20-Poly1305", "ChaCha20-Poly1305", plaintext, key,
                fresh, nonce)

chacha20_decrypt(ciphertext, key, nonce, tag) ==
    AeadDecrypt("ChaCha20-Poly1305", ciphertext, key, nonce, tag)

\* generate_rsa_keypair: pair is the draw; the two halves of one pair match
PrivateKey(pair) == [half |-> "private", pair |-> pair]
PublicKey(pair) == [half |-> "public", pair |-> pair]

\* rsa_encrypt: OAEP taken as ideal, the ciphertext stands for the text
\* under the public key
rsa_encrypt(plaintext, public_key) ==
    B64Encode(<<[to |-> public_key.pair, text |-> plaintext]>>)

\* rsa_decrypt: private_key.decrypt raises ValueError under another key
rsa_decrypt(ciphertext, private_key) ==
    LET c == B64Decode(ciphertext)[1]
    IN IF c.to = private_key.pair THEN Return(c.text)
       ELSE Raise("ValueError", "Decryption failed")

\* sha256_hash / sha512_hash of a text: the digest of its UTF-8 bytes
sha256_hash(text) == Hash(Utf8Encode(text))
sha512_hash(text) == [str |-> "hex512", bytes |-> Utf8Encode(text), kids |-> <<>>]

\* str.upper() on the algorithm names that occur
Upper(name) == IF name = "sha-512" THEN "SHA-512" ELSE name

\* verify_hash: ValueError for a name that is neither SHA-256 nor SHA-512
verify_hash(text, expected_hash, algorithm) ==
    IF Upper(algorithm) = "SHA-256" THEN Return(sha256_hash(text) = expected_hash)
    ELSE IF Upper(algorithm) = "SHA-512"
    THEN Return(sha512_hash(text) = expected_hash)
    ELSE Raise("ValueError", "Unsupported hash algorithm")

\* sign_data: PSS taken as ideal, the signature stands for the text under
\* the private key
sign_data(text, private_key) ==
    B64Encode(<<[by |-> private_key.pair, text |-> Utf8Encode(text)]>>)

\* verify_signature: False on InvalidSignature
verify_signature(text, signature, public_key) ==
    B64Decode(signature) = <<[by |-> public_key.pair, text |-> Utf8Encode(text)]>>

\* hybrid_encrypt: AES under a new key, the key's base64 text under RSA
hybrid_encrypt(plaintext, public_key, fresh, nonce) ==
    LET aes_result == aes_encrypt(plaintext, NoKey, fresh, nonce)
    IN [encrypted_data |-> aes_result.ciphertext,
        encrypted_key |-> rsa_encrypt(aes_result.key, public_key),
        nonce |-> aes_result.nonce,
        tag |-> aes_result.tag,
        algorithm |-> "Hybrid-AES-256-GCM-RSA-2048"]

\* hybrid_decrypt: what rsa_decrypt or aes_decrypt raises goes to the caller
hybrid_decrypt(encrypted_data, encrypted_key, nonce, tag, private_key) ==
    LET aes_key_b64 == rsa_decrypt(encrypted_key, private_key)
    IN IF ~aes_key_b64.ok THEN aes_key_b64
       ELSE aes_decrypt(encrypted_data, B64Decode(aes_key_b64.value)[1],
                        nonce, tag)

(* ----------------- the primitives called on their own ------------------ *)
NoArgs ==
    [ciphertext |-> NoB64, nonce |-> NoB64, tag |-> NoB64, key |-> NoKey,
     encrypted_key |-> NoB64, private_key |-> PrivateKey(0)]

\* the primitives, the share columns and the encryption service share no
\* state: each part is followed from the state in which the other two have
\* not started
PrimIdle == p_pc = "fresh"

VaultIdle == share_link.row.exists = FALSE

EncIdle ==
    /\ \A l \in DOMAIN policies : ~policies[l].exists
    /\ updates_done = 0
    /\ instances = 0

\* the decrypt arguments a caller takes from the result of an AEAD encrypt:
\* the key it supplied, or the key the result carries
AeadArgs(result, key) ==
    [ciphertext |-> result.ciphertext, nonce |-> result.nonce,
     tag |-> result.tag,
     key |-> IF key = NoKey THEN B64Decode(result.key)[1] ELSE key,
     encrypted_key |-> NoB64, private_key |-> PrivateKey(0)]

\* test_crypto.py, test_phase7_crypto.py: the encrypt calls for a plaintext,
\* each with the decrypt arguments its result gives: aes_encrypt and
\* chacha20_encrypt with and without a key, hybrid_encrypt for key pair 1
EncryptCalls(plaintext) ==
    {[alg |-> "aes",
      args |-> AeadArgs(aes_encrypt(plaintext, key,
                                    generate_aes_key(256, 2), 1), key)] :
        key \in {NoKey, generate_aes_key(256, 1)}}
    \cup
    {[alg |-> "chacha20",
      args |-> AeadArgs(chacha20_encrypt(plaintext, key,
                                         generate_aes_key(256, 2), 1), key)] :
        key \in {NoKey, generate_aes_key(256, 1)}}
    \cup
    {[alg |-> "hybrid",
      args |-> LET result == hybrid_encrypt(plaintext, PublicKey(1),
                                            generate_aes_key(256, 2), 1)
               IN [ciphertext |-> result.encrypted_data,
                   nonce |-> result.nonce, tag |-> result.tag,
                   key |-> NoKey, encrypted_key |-> result.encrypted_key,
                   private_key |-> PrivateKey(1)]]}

call_encrypt ==
    \E plaintext \in Texts :
        \E call \in EncryptCalls(plaintext) :
            /\ p_pc = "fresh"
            /\ VaultIdle /\ EncIdle
            /\ p_alg' = call.alg
            /\ p_plain' = plaintext
            /\ p_enc' = call.args
            /\ p_args' = call.args
            /\ p_pc' = "encrypted"
            /\ UNCHANGED <<p_tamper, p_out, nonPrimVars>>

\* the strings that decode to the bytes of s with one byte changed
AlteredCiphertexts(s) ==
    {B64Encode([B64Decode(s) EXCEPT ![i].val = (@ + 1) % 256]) :
        i \in 1..Len(B64Decode(s))}

\* the strings that decode to the tag bytes of s with the first or the last
\* byte replaced by a byte no tag holds there
AlteredTags(s) ==
    {B64Encode([B64Decode(s) EXCEPT ![j].pos = 0]) :
        j \in {1, TagLen} \cap DOMAIN B64Decode(s)}

\* what a caller can hand to decrypt instead of args: a ciphertext or a tag
\* with one byte changed, another base64 spelling of the same tag or
\* ciphertext bytes, the same bytes cut elsewhere into ciphertext and tag,
\* and for hybrid_decrypt the private key of another pair
TamperedArgs(args) ==
    {[name |-> "ciphertext", args |-> [args EXCEPT !.ciphertext = c]] :
        c \in AlteredCiphertexts(args.ciphertext)}
    \cup
    {[name |-> "tag", args |-> [args EXCEPT !.tag = t]] :
        t \in AlteredTags(args.tag)}
    \cup
    {[name |-> "respelled", args |-> [args EXCEPT !.tag = t]] :
        t \in B64Respellings(args.tag)}
    \cup
    {[name |-> "respelled", args |-> [args EXCEPT !.ciphertext = c]] :
        c \in B64Respellings(args.ciphertext)}
    \cup
    {[name |-> "shifted",
      args |-> [args EXCEPT
                  !.ciphertext = B64Encode(Append(B64Decode(args.ciphertext),
                                                  B64Decode(args.tag)[j])),
                  !.tag = B64Encode(Tail(B64Decode(args.tag)))]] :
        j \in {1} \cap DOMAIN B64Decode(args.tag)}
    \cup
    {[name |-> "private_key", args |-> [args EXCEPT !.private_key = k]] :
        k \in IF args.encrypted_key = NoB64 THEN {} ELSE {PrivateKey(2)}}

tampered ==
    /\ p_pc = "encrypted"
    /\ \E t \in TamperedArgs(p_args) :
        /\ p_args' = t.args
        /\ p_tamper' = t.name
        /\ p_pc' = "tampered"
        /\ UNCHANGED <<p_alg, p_plain, p_enc, p_out, nonPrimVars>>

\* the decrypt function of the pair, called with args
DecryptCall(alg, args) ==
    IF alg = "aes"
    THEN aes_decrypt(args.ciphertext, args.key, args.nonce, args.tag)
    ELSE IF alg = "chacha20"
    THEN chacha20_decrypt(args.ciphertext, args.key, args.nonce, args.tag)
    ELSE hybrid_decrypt(args.ciphertext, args.encrypted_key, args.nonce,
                        args.tag, args.private_key)

call_decrypt ==
    /\ p_pc \in {"encrypted", "tampered"}
    /\ p_out' = DecryptCall(p_alg, p_args)
    /\ p_pc' = "decrypted"
    /\ UNCHANGED <<p_alg, p_plain, p_enc, p_args, p_tamper, nonPrimVars>>

(* ------------- ShareService: the cryptographic columns --------------- *)
NoShare ==
    [row |-> NoLink, encrypted_content |-> NoB64, encryption_algorithm |-> "",
     nonce |-> NoB64, tag |-> NoB64, encryption_key |-> NoB64,
     hash_value |-> EmptyStr, hash_algorithm |-> "", merkle_root |-> EmptyStr,
     chunk_size |-> None]

\* create_share_link, lines 113-170: the row stored for content; key is the
\* key generate_aes_key(256) draws, nonce the nonce aes_encrypt draws
StoredShare(content, password, expiration_hours, max_downloads, key, nonce, t) ==
    LET content_str == Latin1Decode(content)
        result == aes_encrypt(content_str, key, NoKey, nonce)
    IN [row |-> NewShareLink(password, expiration_hours, max_downloads, 1, t),
        encrypted_content |-> result.ciphertext,
        encryption_algorithm |-> "AES-256-GCM",
        nonce |-> result.nonce,
        tag |-> result.tag,
        encryption_key |-> B64Encode(<<key>>),
        hash_value |-> sha256_hash(content_str),
        hash_algorithm |-> "SHA-256",
        merkle_root |-> MerkleRoot(content, DEFAULT_CHUNK_SIZE),
        chunk_size |-> DEFAULT_CHUNK_SIZE]

\* verify_merkle_integrity: False when the stored root is empty or None
verify_merkle_integrity(link, content) ==
    IF link.merkle_root = EmptyStr THEN FALSE
    ELSE VerifyIntegrity(content, link.merkle_root,
                         IF TruthyInt(link.chunk_size) THEN link.chunk_size
                         ELSE DEFAULT_CHUNK_SIZE)

\* decrypt_share, lines 211-218: the message of the access gate
AccessGate(row, t) ==
    IF CanAccess(row, t) THEN "none"
    ELSE IF IsExpired(row, t) THEN "Share link has expired"
    ELSE IF IsDownloadLimitReached(row) THEN "Download limit reached"
    ELSE IF ~row.is_active THEN "Share link is no longer active"
    ELSE "none"

\* decrypt_share, lines 232-244: aes_decrypt and the latin-1 encoding, every
\* exception turned into ValueError("Decryption failed: ...")
DecryptedContent(link) ==
    LET plaintext_str == aes_decrypt(link.encrypted_content,
                                     B64Decode(link.encryption_key)[1],
                                     link.nonce, link.tag)
    IN IF ~plaintext_str.ok THEN Raise("ValueError", "Decryption failed")
       ELSE IF ~Latin1Encode(plaintext_str.value).ok
       THEN Raise("ValueError", "Decryption failed")
       ELSE Return([text |-> plaintext_str.value,
                    bytes |-> Latin1Encode(plaintext_str.value).value])

\* decrypt_share as one call on the stored row: what it returns or raises
DecryptShareOutcome(link, password, t) ==
    IF AccessGate(link.row, t) # "none"
    THEN Raise("ValueError", AccessGate(link.row, t))
    ELSE IF PasswordGate(link.row, password) # "none"
    THEN Raise("ValueError", PasswordGate(link.row, password))
    ELSE IF ~DecryptedContent(link).ok THEN DecryptedContent(link)
    ELSE LET plaintext == DecryptedContent(link).value
             hash_verified == verify_hash(plaintext.text, link.hash_value,
                                          link.hash_algorithm)
         IN IF ~hash_verified.ok THEN hash_verified
            ELSE Return([content |-> plaintext.bytes,
                         hash_verified |-> hash_verified.value,
                         merkle_verified |->
                             verify_merkle_integrity(link, plaintext.bytes)])

\* create_share_link for a link without password, expiry or download limit
store_share ==
    \E content \in Texts :
        /\ share_link = NoShare
        /\ PrimIdle /\ EncIdle
        /\ share_link' = StoredShare(content, NoPassword, None, None,
                                     generate_aes_key(256, 1), 1, now)
        /\ share_content' = content
        /\ UNCHANGED <<share_tamper, share_out, nonVaultVars>>

\* the rows the stored row can be turned into by a change of one column: the
\* hash_value or the merkle_root of another content (the empty root for no
\* content), one byte of the ciphertext or of the tag
AlteredRows(link) ==
    {[name |-> "hash_value",
      link |-> [link EXCEPT !.hash_value = sha256_hash(Latin1Decode(c))]] :
        c \in {x \in Texts : sha256_hash(Latin1Decode(x)) # link.hash_value}}
    \cup
    {[name |-> "merkle_root",
      link |-> [link EXCEPT !.merkle_root = MerkleRoot(c, DEFAULT_CHUNK_SIZE)]] :
        c \in {x \in Texts : MerkleRoot(x, DEFAULT_CHUNK_SIZE) # link.merkle_root}}
    \cup
    {[name |-> "ciphertext", link |-> [link EXCEPT !.encrypted_content = c]] :
        c \in AlteredCiphertexts(link.encrypted_content)}
    \cup
    {[name |-> "tag", link |-> [link EXCEPT !.tag = g]] :
        g \in AlteredTags(link.tag)}

stored_row_altered ==
    /\ share_link.row.exists
    /\ share_tamper = "none"
    /\ ~share_out.done
    /\ \E a \in AlteredRows(share_link) :
        /\ share_link' = a.link
        /\ share_tamper' = a.name
        /\ UNCHANGED <<share_content, share_out, nonVaultVars>>

\* decrypt_share on the stored row, without a password; line 260: the
\* download is counted only when the call got to increment_download_count
call_decrypt_share ==
    /\ share_link.row.exists
    /\ ~share_out.done
    /\ share_out' = [done |-> TRUE,
                     before |-> share_link.row.download_count,
                     out |-> DecryptShareOutcome(share_link, NoPassword, now)]
    /\ share_link' =
          IF DecryptShareOutcome(share_link, NoPassword, now).ok
          THEN [share_link EXCEPT
                   !.row = IncrementedRow(share_link.row, share_link.row, now)]
          ELSE share_link
    /\ UNCHANGED <<share_content, share_tamper, nonVaultVars>>

(* ------------------ PolicyEngineService, EncryptionService ------------ *)
\* SensitivityLevel
Levels == {"public", "internal", "confidential", "highly_sensitive"}

\* the names a lookup can be made with: the levels and a name without a row
LookupLevels == Levels \cup {"restricted"}

\* Python None for the optional string columns
NoneStr == "None"

NoPolicy ==
    [exists |-> FALSE, encryption_algorithm |-> "", key_size |-> None,
     asymmetric_algorithm |-> NoneStr, asymmetric_key_size |-> None,
     hash_algorithm |-> "", signature_required |-> FALSE,
     mfa_required |-> "none"]

Policy(algorithm, key_size, asym, asym_size, hash, signed, mfa) ==
    [exists |-> TRUE, encryption_algorithm |-> algorithm, key_size |-> key_size,
     asymmetric_algorithm |-> asym, asymmetric_key_size |-> asym_size,
     hash_algorithm |-> hash, signature_required |-> signed,
     mfa_required |-> mfa]

\* create_default_policies: default_policies
DefaultPolicies ==
    [l \in Levels |->
        CASE l = "public" ->
                Policy("AES-128-GCM", 128, NoneStr, None, "SHA-256", FALSE, "none")
          [] l = "internal" ->
                Policy("AES-256-GCM", 256, NoneStr, None, "SHA-256", FALSE, "none")
          [] l = "confidential" ->
                Policy("AES-256-GCM", 256, NoneStr, None, "SHA-512", TRUE,
                       "conditional")
          [] l = "highly_sensitive" ->
                Policy("AES-256-GCM", 256, "RSA-2048", 2048, "SHA-512", TRUE,
                       "required")]

\* create_sample_policies.py: policies_data
SamplePolicies ==
    [l \in Levels |->
        CASE l = "public" ->
                Policy("AES-128-GCM", 128, NoneStr, None, "SHA-256", FALSE, "none")
          [] l = "internal" ->
                Policy("AES-256-GCM", 256, "RSA-2048", None, "SHA-256", FALSE,
                       "recommended")
          [] l = "confidential" ->
                Policy("AES-256-GCM", 256, "RSA-4096", None, "SHA-512", TRUE,
                       "conditional")
          [] l = "highly_sensitive" ->
                Policy("AES-256-GCM", 256, "RSA-4096", None, "SHA-512", TRUE,
                       "required")]

\* EncryptionPolicy.requires_asymmetric
requires_asymmetric(policy) ==
    policy.asymmetric_algorithm # NoneStr /\ policy.asymmetric_key_size # None

\* get_policy: the row of the level, None (NoPolicy) when there is none
get_policy(tbl, sensitivity_level) ==
    IF sensitivity_level \in Levels THEN tbl[sensitivity_level] ELSE NoPolicy

requires_signature(tbl, sensitivity_level) ==
    LET policy == get_policy(tbl, sensitivity_level)
    IN Return(IF policy.exists THEN policy.signature_required ELSE FALSE)

requires_hybrid_encryption(tbl, sensitivity_level) ==
    LET policy == get_policy(tbl, sensitivity_level)
    IN Return(IF policy.exists THEN requires_asymmetric(policy) ELSE FALSE)

get_hash_algorithm(tbl, sensitivity_level) ==
    LET policy == get_policy(tbl, sensitivity_level)
    IN Return(IF policy.exists THEN policy.hash_algorithm ELSE "SHA-256")

get_mfa_requirement(tbl, sensitivity_level) ==
    LET policy == get_policy(tbl, sensitivity_level)
    IN Return(IF policy.exists THEN policy.mfa_required ELSE "none")

\* the fields an admin sets through PUT /policies/{level}
Updates ==
    {[field |-> "hash_algorithm", value |-> "SHA3-256"],
     [field |-> "hash_algorithm", value |-> "sha-512"],
     [field |-> "asymmetric_algorithm", value |-> "RSA-2048"]}

\* update_policy, lines 141-143: setattr for each key of the update
Updated(policy, u) ==
    IF u.field = "hash_algorithm" THEN [policy EXCEPT !.hash_algorithm = u.value]
    ELSE [policy EXCEPT !.asymmetric_algorithm = u.value]

NoItem ==
    [exists |-> FALSE, original_content |-> <<>>, sensitivity_level |-> "",
     encrypted_content |-> NoB64, encryption_algorithm |-> "",
     encryption_key_id |-> NoB64, nonce |-> NoB64, tag |-> NoB64,
     hash_value |-> EmptyStr, hash_algorithm |-> "", is_signed |-> FALSE,
     signature |-> NoB64]

\* encrypt_and_store, lines 78-133, for a policy that exists: the row stored
\* by the service object holding key pair `pair`
StoredItem(content, sensitivity_level, policy, pair, fresh, nonce) ==
    LET hybrid == hybrid_encrypt(content, PublicKey(pair), fresh, nonce)
        plain == aes_encrypt(content, NoKey, fresh, nonce)
    IN [exists |-> TRUE,
        original_content |-> content,
        sensitivity_level |-> sensitivity_level,
        encrypted_content |-> IF requires_asymmetric(policy)
                              THEN hybrid.encrypted_data ELSE plain.ciphertext,
        encryption_algorithm |-> IF requires_asymmetric(policy)
                                 THEN hybrid.algorithm ELSE plain.algorithm,
        encryption_key_id |-> IF requires_asymmetric(policy)
                              THEN hybrid.encrypted_key ELSE plain.key,
        nonce |-> IF requires_asymmetric(policy) THEN hybrid.nonce ELSE plain.nonce,
        tag |-> IF requires_asymmetric(policy) THEN hybrid.tag ELSE plain.tag,
        hash_value |-> IF policy.hash_algorithm = "SHA-512"
                       THEN sha512_hash(content) ELSE sha256_hash(content),
        hash_algorithm |-> policy.hash_algorithm,
        is_signed |-> policy.signature_required,
        signature |-> IF policy.signature_required
                      THEN sign_data(content, PrivateKey(pair)) ELSE NoB64]

\* encrypt_and_store: ValueError when get_policy returns None
EncryptAndStore(tbl, content, sensitivity_level, pair, fresh, nonce) ==
    IF ~get_policy(tbl, sensitivity_level).exists
    THEN Raise("ValueError", "No policy found for sensitivity level")
    ELSE Return(StoredItem(content, sensitivity_level,
                           get_policy(tbl, sensitivity_level), pair, fresh, nonce))

\* "Hybrid" in data_item.encryption_algorithm, on the names that occur
IsHybridName(name) == name = "Hybrid-AES-256-GCM-RSA-2048"

\* decrypt_data, lines 168-192: the plaintext, by the service object holding
\* key pair `pair`
DecryptedText(item, pair) ==
    IF IsHybridName(item.encryption_algorithm)
    THEN hybrid_decrypt(item.encrypted_content, item.encryption_key_id,
                        item.nonce, item.tag, PrivateKey(pair))
    ELSE aes_decrypt(item.encrypted_content,
                     B64Decode(item.encryption_key_id)[1], item.nonce, item.tag)

\* decrypt_data by the service object holding key pair `pair`
DecryptData(item, pair) ==
    IF B64Decode(item.encrypted_content) = <<>>
    THEN Raise("ValueError", "Data item is not encrypted")
    ELSE LET plaintext == DecryptedText(item, pair)
         IN IF ~plaintext.ok THEN plaintext
            ELSE LET hash_verified == verify_hash(plaintext.value,
                                                  item.hash_value,
                                                  item.hash_algorithm)
                 IN IF ~hash_verified.ok THEN hash_verified
                    ELSE Return(
                        [decrypted_text |-> plaintext.value,
                         hash_verified |-> hash_verified.value,
                         signature_verified |->
                             IF item.is_signed
                             THEN IF verify_signature(plaintext.value,
                                                      item.signature,
                                                      PublicKey(pair))
                                  THEN "True" ELSE "False"
                             ELSE NoneStr])

\* create_default_policies: a row for every level that has none
create_default_policies ==
    /\ PrimIdle /\ VaultIdle
    /\ \E l \in Levels : ~policies[l].exists
    /\ policies' = [l \in Levels |->
                       IF policies[l].exists THEN policies[l]
                       ELSE DefaultPolicies[l]]
    /\ UNCHANGED <<updates_done, instances, data_item, item_policy,
                   item_tamper, encrypt_out, decrypt_out, nonEncVars>>

\* create_sample_policies: only into an empty table
create_sample_policies ==
    /\ PrimIdle /\ VaultIdle
    /\ \A l \in Levels : ~policies[l].exists
    /\ policies' = SamplePolicies
    /\ UNCHANGED <<updates_done, instances, data_item, item_policy,
                   item_tamper, encrypt_out, decrypt_out, nonEncVars>>

\* update_policy: no change (None returned) when the level has no row
update_policy ==
    \E l \in Levels, u \in Updates :
        /\ PrimIdle /\ VaultIdle
        /\ updates_done < MaxUpdates
        /\ updates_done' = updates_done + 1
        /\ policies' = IF policies[l].exists
                       THEN [policies EXCEPT ![l] = Updated(@, u)]
                       ELSE policies
        /\ UNCHANGED <<instances, data_item, item_policy, item_tamper,
                       encrypt_out, decrypt_out, nonEncVars>>

\* POST /encryption/encrypt: a new EncryptionService, then encrypt_and_store
encrypt_and_store ==
    \E content \in ItemTexts, l \in Levels :
        LET out == EncryptAndStore(policies, content, l, instances + 1,
                                   generate_aes_key(256, 1), 1)
        IN /\ PrimIdle /\ VaultIdle
           /\ ~encrypt_out.done
           /\ instances' = instances + 1
           /\ encrypt_out' = [done |-> TRUE, out |-> out]
           /\ data_item' = IF out.ok THEN out.value ELSE data_item
           /\ item_policy' = get_policy(policies, l)
           /\ UNCHANGED <<policies, updates_done, item_tamper, decrypt_out,
                          nonEncVars>>

\* the stored hash_value is replaced by the digest of another text
item_hash_altered ==
    \E c \in ItemTexts :
        /\ data_item.exists
        /\ item_tamper = "none"
        /\ ~decrypt_out.done
        /\ c # data_item.original_content
        /\ data_item' = [data_item EXCEPT !.hash_value =
                            IF data_item.hash_algorithm = "SHA-512"
                            THEN sha512_hash(c) ELSE sha256_hash(c)]
        /\ item_tamper' = "hash_value"
        /\ UNCHANGED <<policies, updates_done, instances, item_policy,
                       encrypt_out, decrypt_out, nonEncVars>>

\* POST /encryption/decrypt for a caller that passed the access gates: a new
\* EncryptionService, then decrypt_data
decrypt_data ==
    /\ data_item.exists
    /\ ~decrypt_out.done
    /\ instances' = instances + 1
    /\ decrypt_out' = [done |-> TRUE, pair |-> instances + 1,
                       out |-> DecryptData(data_item, instances + 1)]
    /\ UNCHANGED <<policies, updates_done, data_item, item_policy, item_tamper,
                   encrypt_out, nonEncVars>>

\* nothing encrypted, nothing stored, no policy row
CryptoInit ==
    /\ p_pc = "fresh"
    /\ p_alg = "none"
    /\ p_plain = <<>>
    /\ p_enc = NoArgs
    /\ p_args = NoArgs
    /\ p_tamper = "none"
    /\ p_out = Raise("", "")
    /\ share_link = NoShare
    /\ share_content = <<>>
    /\ share_tamper = "none"
    /\ share_out = [done |-> FALSE, before |-> 0, out |-> Raise("", "")]
    /\ policies = [l \in Levels |-> NoPolicy]
    /\ updates_done = 0
    /\ instances = 0
    /\ data_item = NoItem
    /\ item_policy = NoPolicy
    /\ item_tamper = "none"
    /\ encrypt_out = [done |-> FALSE, out |-> Raise("", "")]
    /\ decrypt_out = [done |-> FALSE, pair |-> 0, out |-> Raise("", "")]

CryptoNext ==
    \/ call_encrypt
    \/ tampered
    \/ call_decrypt
    \/ store_share
    \/ stored_row_altered
    \/ call_decrypt_share
    \/ create_default_policies
    \/ create_sample_policies
    \/ update_policy
    \/ encrypt_and_store
    \/ item_hash_altered
    \/ decrypt_data

(* ------------------- POST /encryption/decrypt: gates ------------------ *)
\* UserRole
UserRoles == {"admin", "manager", "user", "guest"}

\* the users that can be authenticated: three accounts, any role each
Users == [id : 1..3, role : UserRoles]

\* the rows a request can name, and no row
DataItems == [exists : {TRUE}, user_id : 1..3, sensitivity_level : Levels]
             \cup {[exists |-> FALSE, user_id |-> None, sensitivity_level |-> ""]}

\* User.has_permission: role_hierarchy of the user against that of the role asked
has_permission(user, required_role) ==
    LET role_hierarchy == [r \in UserRoles |->
                              CASE r = "guest" -> 1 [] r = "user" -> 2
                                [] r = "manager" -> 3 [] r = "admin" -> 4]
    IN role_hierarchy[user.role] >= role_hierarchy[required_role]

\* User.can_access_sensitivity: access_matrix
can_access_sensitivity(user, sensitivity_level) ==
    LET access_matrix == [r \in UserRoles |->
            CASE r = "admin" -> Levels
              [] r = "manager" -> {"public", "internal", "confidential"}
              [] r = "user" -> {"public", "internal"}
              [] r = "guest" -> {"public"}]
    IN sensitivity_level \in access_matrix[user.role]

\* the decrypt endpoint, lines 113-135: the status raised by the gates, or
\* EncryptionService.decrypt_data called (status 200, or 500 when it raises)
DecryptGates(current_user, item) ==
    IF ~item.exists
    THEN [status |-> 404, called |-> FALSE]
    ELSE IF /\ item.user_id # current_user.id
            /\ ~has_permission(current_user, current_user.role)
    THEN [status |-> 403, called |-> FALSE]
    ELSE IF ~can_access_sensitivity(current_user, item.sensitivity_level)
    THEN [status |-> 403, called |-> FALSE]
    ELSE [status |-> 200, called |-> TRUE]

AuthInit ==
    /\ a_user = [id |-> None, role |-> "guest"]
    /\ a_item = [exists |-> FALSE, user_id |-> None, sensitivity_level |-> ""]
    /\ a_out = [status |-> 0, called |-> FALSE]

\* POST /encryption/decrypt by an authenticated user
decrypt_request ==
    \E current_user \in Users, item \in DataItems :
        /\ a_out.status = 0
        /\ a_user' = current_user
        /\ a_item' = item
        /\ a_out' = DecryptGates(current_user, item)
        /\ UNCHANGED nonAuthVars

(* ------------------------- AdaptiveRateLimiter ------------------------ *)
\* the emails and the client addresses of the callers
Emails == {"a@x.org"}
IPs == {"10.0.0.1"}

\* check_login_attempt: minutes of the failure window and of the two blocks,
\* failure counts of the warning, moderate and severe tier
FailureWindow == 5
WarningFailures == 3
ModerateFailures == 5
SevereFailures == 10
ModerateBlock == 5
SevereBlock == 30

\* check_ip_rate: minutes of the rate window
RateWindow == 1

\* mutant: old entries are never dropped
Recent_KeepsAll(timestamps, t, minutes) == timestamps

\* the entries younger than `minutes` at time t (lines 98-101, 158-161)
Recent(timestamps, t, minutes) ==
    SelectSeq(timestamps, LAMBDA ts : t - ts < minutes)

\* check_login_attempt, lines 67-126, at time t: what it returns and the
\* failed_attempts and blocked it leaves; an attempt is recorded by its
\* timestamp (its 'ip' is never read)
CheckLoginAttempt(fa, bl, wl, email, ip_address, success, t) ==
    LET bl1 == IF bl[email] # None /\ ~(t < bl[email])
               THEN [bl EXCEPT ![email] = None] ELSE bl
        bl2 == IF bl1[ip_address] # None /\ ~(t < bl1[ip_address])
               THEN [bl1 EXCEPT ![ip_address] = None] ELSE bl1
        recent == Recent(Append(fa[email], t), t, FailureWindow)
        out(allowed, reason, fa_, bl_) ==
            [allowed |-> allowed, reason |-> reason,
             failed_attempts |-> fa_, blocked |-> bl_]
    IN IF bl[email] # None /\ t < bl[email]
       THEN out(FALSE, "Account temporarily blocked", fa, bl)
       ELSE IF bl1[ip_address] # None /\ t < bl1[ip_address]
       THEN out(FALSE, "IP temporarily blocked", fa, bl1)
       ELSE IF email \in wl \/ ip_address \in wl
       THEN out(TRUE, "Whitelisted", fa, bl2)
       ELSE IF ~success
       THEN IF Len(recent) >= SevereFailures
            THEN out(FALSE, "Account blocked for 30 minutes",
                     [fa EXCEPT ![email] = recent],
                     [bl2 EXCEPT ![email] = t + SevereBlock])
            ELSE IF Len(recent) >= ModerateFailures
            THEN out(FALSE, "Account blocked for 5 minutes",
                     [fa EXCEPT ![email] = recent],
                     [bl2 EXCEPT ![email] = t + ModerateBlock])
            ELSE IF Len(recent) >= WarningFailures
            THEN out(TRUE, "Warning", [fa EXCEPT ![email] = recent], bl2)
            ELSE out(TRUE, "Allowed", [fa EXCEPT ![email] = recent], bl2)
       ELSE out(TRUE, "Allowed", [fa EXCEPT ![email] = <<>>], bl2)

\* threading.Lock: free when no thread holds it
NoThread == 0
Threads == 1..NumThreads
Operations == {"encrypt"}

\* mutant: the lock is taken whether it is held or not
LockFree_Always(l) == TRUE

LockFree(l) == l = NoThread

LimiterInit ==
    /\ l_now = 0
    /\ failed_attempts = [e \in Emails |-> <<>>]
    /\ blocked = [i \in Emails \cup IPs |-> None]
    /\ whitelist = {}
    /\ suspicious_ips = [k \in IPs \X Operations |-> <<>>]
    /\ lock = NoThread
    /\ t_pc = [t \in Threads |-> "idle"]
    /\ t_call = [t \in Threads |-> [key |-> <<"", "">>, now |-> 0]]
    /\ l_out = [email |-> "", ip_address |-> "", success |-> FALSE,
                allowed |-> TRUE, reason |-> ""]
    /\ fails_now = [e \in Emails |-> 0]
    /\ allowed_calls = [k \in IPs \X Operations |-> <<>>]

\* the clock advances by a minute
limiter_tick ==
    /\ l_now < MaxClock
    /\ l_now' = l_now + 1
    /\ fails_now' = [e \in Emails |-> 0]
    /\ UNCHANGED <<failed_attempts, blocked, whitelist, suspicious_ips, lock,
                   t_pc, t_call, l_out, allowed_calls, nonLimVars>>

\* check_login_attempt, the whole body under the lock
check_login_attempt(email, ip_address, success) ==
    LET r == CheckLoginAttempt(failed_attempts, blocked, whitelist, email,
                               ip_address, success, l_now)
    IN /\ LockFree(lock)
       /\ success \/ fails_now[email] < MaxBurst
       /\ failed_attempts' = r.failed_attempts
       /\ blocked' = r.blocked
       /\ l_out' = [email |-> email, ip_address |-> ip_address,
                    success |-> success, allowed |-> r.allowed,
                    reason |-> r.reason]
       /\ fails_now' = IF success THEN fails_now
                       ELSE [fails_now EXCEPT ![email] = @ + 1]
       /\ UNCHANGED <<l_now, whitelist, suspicious_ips, lock, t_pc, t_call,
                      allowed_calls, nonLimVars>>

add_to_whitelist ==
    \E identifier \in Emails \cup IPs :
        /\ LockFree(lock)
        /\ whitelist' = whitelist \cup {identifier}
        /\ UNCHANGED <<l_now, failed_attempts, blocked, suspicious_ips, lock,
                       t_pc, t_call, l_out, fails_now, allowed_calls,
                       nonLimVars>>

remove_from_whitelist ==
    \E identifier \in Emails \cup IPs :
        /\ LockFree(lock)
        /\ whitelist' = whitelist \ {identifier}
        /\ UNCHANGED <<l_now, failed_attempts, blocked, suspicious_ips, lock,
                       t_pc, t_call, l_out, fails_now, allowed_calls,
                       nonLimVars>>

\* check_ip_rate, lines 145-162, by thread t: the lock is taken, now is read,
\* the entries older than a minute are dropped and the list is stored
check_ip_rate_clean(t) ==
    \E ip_address \in IPs, operation \in Operations :
        /\ t_pc[t] = "idle"
        /\ LockFree(lock)
        /\ lock' = t
        /\ t_call' = [t_call EXCEPT ![t] = [key |-> <<ip_address, operation>>,
                                            now |-> l_now]]
        /\ suspicious_ips' =
              [suspicious_ips EXCEPT ![<<ip_address, operation>>] =
                  Recent(@, l_now, RateWindow)]
        /\ t_pc' = [t_pc EXCEPT ![t] = "check"]
        /\ UNCHANGED <<l_now, failed_attempts, blocked, whitelist, l_out,
                       fails_now, allowed_calls, nonLimVars>>

\* check_ip_rate, lines 165-166: the limit test; a denied call returns and
\* the lock is released
check_ip_rate_check(t) ==
    /\ t_pc[t] = "check"
    /\ IF Len(suspicious_ips[t_call[t].key]) >= RateLimit
       THEN /\ t_pc' = [t_pc EXCEPT ![t] = "idle"]
            /\ lock' = IF lock = t THEN NoThread ELSE lock
       ELSE /\ t_pc' = [t_pc EXCEPT ![t] = "record"]
            /\ UNCHANGED lock
    /\ UNCHANGED <<l_now, failed_attempts, blocked, whitelist, suspicious_ips,
                   t_call, l_out, fails_now, allowed_calls, nonLimVars>>

\* check_ip_rate, lines 169-171: ops.append(now), the call is allowed and the
\* lock is released
check_ip_rate_record(t) ==
    /\ t_pc[t] = "record"
    /\ suspicious_ips' = [suspicious_ips EXCEPT ![t_call[t].key] =
                             Append(@, t_call[t].now)]
    /\ allowed_calls' = [allowed_calls EXCEPT ![t_call[t].key] =
                            Append(@, t_call[t].now)]
    /\ t_pc' = [t_pc EXCEPT ![t] = "idle"]
    /\ lock' = IF lock = t THEN NoThread ELSE lock
    /\ UNCHANGED <<l_now, failed_attempts, blocked, whitelist, t_call, l_out,
                   fails_now, nonLimVars>>

ShareInit ==
    /\ now = 0
    /\ links = [t \in Tokens |-> NoLink]
    /\ created = {}
    /\ returned = [t \in Tokens |-> 0]
    /\ pc = [r \in Requests |-> "idle"]
    /\ rtoken = [r \in Requests |-> 1]
    /\ rpw = [r \in Requests |-> NoPassword]
    /\ snap = [r \in Requests |-> NoLink]
    /\ outcome = [r \in Requests |-> "none"]
    /\ reached = [r \in Requests |-> {}]
    /\ revoked = {}

RequestStep(r) ==
    \/ get_share_by_token(r)
    \/ decrypt_share_granted(r)
    \/ decrypt_share_denied(r)
    \/ decrypt_share_reason(r)
    \/ increment_download_count(r)

ServiceStep ==
    \/ Tick
    \/ create_share_link
    \/ cleanup_expired_shares
    \/ deactivate_share

\* requests served concurrently, each in its own session
Init ==
    ShareInit /\ MerkleInit(<<>>, 1) /\ CryptoInit /\ AuthInit /\ LimiterInit
Next == ServiceStep \/ \E r \in Requests : RequestStep(r)
Spec == Init /\ [][Next]_vars

\* requests served one after the other
Exclusive(r) == \A q \in Requests \ {r} : pc[q] \in {"idle", "done"}
SeqNext == ServiceStep \/ \E r \in Requests : Exclusive(r) /\ RequestStep(r)
SpecSeq == Init /\ [][SeqNext]_vars

\* a tree built from a buffer, one proof generated from it and verified
MerkleSpecInit ==
    /\ ShareInit
    /\ CryptoInit
    /\ AuthInit
    /\ LimiterInit
    /\ \E buf \in Buffers, size \in 1..MaxChunkSize : MerkleInit(buf, size)
MerkleNext ==
    \/ build_round
    \/ build_finish
    \/ generate_proof
    \/ wrong_chunk
    \/ swapped_side
    \/ altered_hash
    \/ verify_proof
SpecMerkle == MerkleSpecInit /\ [][MerkleNext]_vars

\* the cryptographic paths of the share service and the encryption service
SpecCrypto == Init /\ [][CryptoNext]_vars

\* decrypt requests against the gates of the endpoint
SpecAuth == Init /\ [][decrypt_request]_vars

\* logins through the limiter, with the whitelist maintained meanwhile
LoginNext ==
    \/ limiter_tick
    \/ \E email \in Emails, ip_address \in IPs, success \in BOOLEAN :
          check_login_attempt(email, ip_address, success)
    \/ add_to_whitelist
    \/ remove_from_whitelist
SpecLogin == Init /\ [][LoginNext]_vars

\* check_login_attempt calls alone
LoginOnlyNext ==
    \/ limiter_tick
    \/ \E email \in Emails, ip_address \in IPs, success \in BOOLEAN :
          check_login_attempt(email, ip_address, success)
SpecLoginOnly == Init /\ [][LoginOnlyNext]_vars

\* concurrent check_ip_rate calls
RateNext ==
    \/ limiter_tick
    \/ \E t \in Threads :
          \/ check_ip_rate_clean(t)
          \/ check_ip_rate_check(t)
          \/ check_ip_rate_record(t)
SpecRate == Init /\ [][RateNext]_vars

\* one request more than Spec has, on a link created with a limit one above
\* MaxLimit and no password: a request can hold its loaded row while the
\* others bring the count up to the limit
LateRequests == 1..(NumRequests + 1)
LateInit ==
    /\ now = 0
    /\ \E h \in {None} \cup (0..MaxHours) :
          links = [t \in Tokens |->
                      NewShareLink(NoPassword, h, MaxLimit + 1, t, 0)]
    /\ created = Tokens
    /\ returned = [t \in Tokens |-> 0]
    /\ pc = [r \in LateRequests |-> "idle"]
    /\ rtoken = [r \in LateRequests |-> 1]
    /\ rpw = [r \in LateRequests |-> NoPassword]
    /\ snap = [r \in LateRequests |-> NoLink]
    /\ outcome = [r \in LateRequests |-> "none"]
    /\ reached = [r \in LateRequests |-> {}]
    /\ revoked = {}
    /\ MerkleInit(<<>>, 1) /\ CryptoInit /\ AuthInit /\ LimiterInit
LateNext ==
    \/ Tick
    \/ cleanup_expired_shares
    \/ deactivate_share
    \/ \E r \in LateRequests : RequestStep(r)
SpecLate == LateInit /\ [][LateNext]_vars

(* ---------------------------- share claims ---------------------------- *)
\* the limit of a row, when it has one that counts (N >= 1)
HasLimit(l) == l.exists /\ l.max_downloads # None /\ l.max_downloads >= 1

NotExpiredAt(l, t) == l.expiration_time = None \/ t <= l.expiration_time

\* C1: for a link with max_downloads = N >= 1, under any interleaving of
\* concurrent decrypt_share requests, at most N requests return content and
\* download_count never exceeds max_downloads.
C1_AtMostNDownloads ==
    \A t \in Tokens :
        HasLimit(links[t]) =>
            /\ returned[t] <= links[t].max_downloads
            /\ links[t].download_count <= links[t].max_downloads

\* C2: requests served one after the other: once N calls on an active,
\* non-expired link with max_downloads = N >= 1 have returned content, a later
\* call is turned away at the gate with "Download limit reached", whatever
\* its password.
C2_LimitAfterN ==
    [][\A r \in Requests :
         LET l == links[rtoken[r]] IN
         (/\ HasLimit(l) /\ l.is_active /\ NotExpiredAt(l, now)
          /\ returned[rtoken[r]] >= l.max_downloads)
         => /\ (pc[r] = "gate" /\ pc'[r] # "gate") => pc'[r] = "denied"
            /\ (pc[r] = "denied" /\ pc'[r] # "denied")
                  => /\ pc'[r] = "done"
                     /\ outcome'[r] = "Download limit reached"
                     /\ reached'[r] = {"denied"}]_vars

C2_Witness ==
    \E r \in Requests :
        LET l == links[rtoken[r]] IN
        /\ outcome[r] = "Download limit reached"
        /\ HasLimit(l) /\ l.is_active /\ NotExpiredAt(l, now)
        /\ l.password_hash.set
        /\ returned[rtoken[r]] = l.max_downloads

\* C3: in every reachable state, also under concurrent requests,
\* download_count equals the number of decrypt_share calls on that link that
\* returned content.
C3_CountEqualsReturned ==
    \A t \in Tokens :
        links[t].exists => links[t].download_count = returned[t]

\* C4: can_access() is true exactly when is_active, and expiration_time is
\* unset or now <= expiration_time, and max_downloads is unset (null) or
\* download_count < max_downloads, for every stored max_downloads, 0 included.
C4_CanAccessExact ==
    \A t \in Tokens :
        LET l == links[t] IN
        l.exists =>
            (CanAccess(l, now) <=>
                /\ l.is_active
                /\ NotExpiredAt(l, now)
                /\ (l.max_downloads = None \/ l.download_count < l.max_downloads))

\* the password a row was created with (the key is PBKDF2 of it)
CreationPassword(l) == l.password_hash.key[1]

\* C5: on a password-protected link for which can_access() is true, a call
\* with a missing or non-matching password ends with "Password required" /
\* "Incorrect password" without entering the decryption, and its step leaves
\* the table (download_count, last_accessed, is_active) as it was.
C5_PasswordGate ==
    [][\A r \in Requests :
         (/\ pc[r] = "gate" /\ pc'[r] # "gate"
          /\ CanAccess(snap[r], now)
          /\ snap[r].password_hash.set
          /\ rpw[r] # CreationPassword(snap[r]))
         => /\ pc'[r] = "done"
            /\ outcome'[r] = IF rpw[r] \in {NoPassword, ""}
                             THEN "Password required"
                             ELSE "Incorrect password"
            /\ reached'[r] = {"password"}
            /\ links' = links
            /\ returned' = returned]_vars

C5_Witness ==
    \E r \in Requests :
        /\ outcome[r] = "Incorrect password"
        /\ reached[r] = {"password"}
        /\ links[rtoken[r]].password_hash.set
        /\ links[rtoken[r]].download_count = 0
        /\ links[rtoken[r]].last_accessed = None

\* the reason the gate is to report for the object l at time t
GateReason(l, t) ==
    IF ~NotExpiredAt(l, t) THEN "Share link has expired"
    ELSE IF l.max_downloads \notin {None, 0}
            /\ l.download_count >= l.max_downloads
    THEN "Download limit reached"
    ELSE "Share link is no longer active"

C8_ProofVerifies ==
    (m_pc = "verified" /\ tamper = "none") => verify_result = TRUE

\* a proof for the lone last node of an odd level deeper than the leaves
C8_Witness ==
    /\ m_pc = "verified" /\ tamper = "none" /\ verify_result
    /\ Len(chunks) = 5
    /\ proof.chunk_index = 4
    /\ Len(proof.sibling_hashes) = 3
    /\ proof.sibling_hashes[2].hash = tree_levels[2][3]

\* C9 (as stated): verify_proof returns False for any deviation: other chunk
\* bytes, a sibling entry with its side swapped or its hash altered.
C9_AnyDeviationRejected ==
    (m_pc = "verified" /\ tamper # "none") => verify_result = FALSE

\* the hash the fold has reached when it comes to entry k of the proof pr
RunningHash(pr, k) == FoldPath(pr.chunk_hash, SubSeq(pr.sibling_hashes, 1, k - 1))

\* C9 (amended): verify_proof returns False for other chunk bytes, for an
\* altered sibling hash, and for a swapped side of an entry whose sibling hash
\* differs from the hash folded so far; a swap on an entry whose sibling
\* equals the running hash (a self-paired odd node, two equal neighbours)
\* leaves the proof valid.
C9_DeviationRejected ==
    m_pc = "verified" =>
        /\ tamper \in {"chunk", "hash"} => verify_result = FALSE
        /\ tamper = "side" =>
              (verify_result = FALSE
                 <=> proof.sibling_hashes[tamper_at].hash
                        # RunningHash(proof, tamper_at))

C9_Witness ==
    /\ m_pc = "verified" /\ tamper = "side" /\ verify_result = FALSE
    /\ Len(proof.sibling_hashes) >= 2
    /\ tamper_at = 2

\* the level above `level` as the claim describes it
PairedLevel(level) ==
    [j \in 1..((Len(level) + 1) \div 2) |->
        HashPair(level[2 * j - 1], level[Min(2 * j, Len(level))])]

\* C10: for n >= 1 chunks the construction ends with a single root after
\* exactly ceil(log2(n)) pairing rounds, the tree_height of get_tree_info;
\* each level is the pairing of the level below, the lone last node of an
\* odd level being paired with itself.
C10_TreeShape ==
    (m_pc # "build" /\ Len(chunks) >= 1) =>
        /\ rounds = TreeHeight(Len(chunks))
        /\ Len(tree_levels) = rounds + 1
        /\ tree_levels[1] = LeafLevel(chunks)
        /\ \A k \in 1..rounds :
              /\ Len(tree_levels[k + 1]) = (Len(tree_levels[k]) + 1) \div 2
              /\ tree_levels[k + 1] = PairedLevel(tree_levels[k])
        /\ Len(tree_levels[rounds + 1]) = 1
        /\ root = tree_levels[rounds + 1][1]
        /\ tree[1] = root

C10_Witness ==
    /\ m_pc = "built"
    /\ Len(chunks) = 5
    /\ rounds = 3
    /\ Len(tree_levels[2]) = 3
    /\ tree_levels[3][2] = HashPair(tree_levels[2][3], tree_levels[2][3])

\* the buffers of the length of buf that differ from it in exactly one byte
OneByteApart(buf) ==
    {b \in [1..Len(buf) -> ByteValues] :
        Cardinality({i \in 1..Len(buf) : b[i] # buf[i]}) = 1}

\* C11: the Merkle root is a function of (bytes, chunk size): a second tree
\* built from the same buffer and chunk size has the same root, and a buffer
\* of the same length that differs in exactly one byte has a different root
\* for the same chunk size.
C11_RootFunctionOfBytes ==
    m_pc # "build" =>
        /\ MerkleRoot(data, chunk_size) = root
        /\ VerifyIntegrity(data, root, chunk_size)
        /\ \A b \in OneByteApart(data) :
              /\ MerkleRoot(b, chunk_size) # root
              /\ ~VerifyIntegrity(b, root, chunk_size)

\* five chunks, the byte that differs lies in the lone last chunk
C11_Witness ==
    /\ m_pc = "built"
    /\ Len(chunks) = 5
    /\ \E b \in OneByteApart(data) :
          /\ b[Len(data)] # data[Len(data)]
          /\ MerkleRoot(b, chunk_size) # root

\* ceil(a / b) as the least n with n * b >= a
CeilDiv(a, b) == CHOOSE n \in 0..a : n * b >= a /\ (n = 0 \/ (n - 1) * b < a)

RECURSIVE Concat(_)
Concat(cs) == IF cs = <<>> THEN <<>> ELSE Head(cs) \o Concat(Tail(cs))

\* the chunk lengths of a 10,000-byte buffer split with the default size
ExampleChunkLengths ==
    LET cs == SplitIntoChunks([i \in 1..10000 |-> 0], DEFAULT_CHUNK_SIZE)
    IN [k \in 1..Len(cs) |-> Len(cs[k])]

\* C12: for a buffer of length L >= 1 and chunk size C >= 1 the split yields
\* ceil(L/C) chunks in order, each of exactly C bytes except the last, which
\* has between 1 and C bytes, and the chunks concatenated equal the buffer;
\* 10,000 bytes with C = 4096 give chunks of 4096, 4096 and 1808 bytes.
C12_ChunkSplit ==
    /\ Len(data) >= 1 =>
          /\ Len(chunks) = CeilDiv(Len(data), chunk_size)
          /\ \A k \in 1..(Len(chunks) - 1) : Len(chunks[k]) = chunk_size
          /\ Len(chunks[Len(chunks)]) \in 1..chunk_size
          /\ Concat(chunks) = data
    /\ ExampleChunkLengths = <<4096, 4096, 1808>>

\* a buffer whose length is not a multiple of the chunk size
C12_Witness ==
    /\ Len(data) = 5 /\ chunk_size = 2
    /\ Len(chunks) = 3
    /\ Len(chunks[3]) = 1
    /\ m_pc = "built"

(* ------------------------ cryptographic claims ------------------------ *)
\* C13: for every content accepted by create_share_link, of any length, zero
\* included, decrypt_share on the stored, unmodified link returns content
\* equal to the original bytes with hash_verified = True and
\* merkle_verified = True.
C13_ShareRoundTrip ==
    (share_out.done /\ share_tamper = "none") =>
        /\ share_out.out.ok
        /\ share_out.out.value.content = share_content
        /\ share_out.out.value.hash_verified
        /\ share_out.out.value.merkle_verified

\* C14: when the AEAD tag verifies but the stored hash value or the stored
\* Merkle root does not match the recovered plaintext, decrypt_share and
\* decrypt_data raise nothing: they return the plaintext with the flag
\* (hash_verified / merkle_verified) False, and decrypt_share counts the
\* download.
C14_MismatchNotFatal ==
    /\ (share_out.done /\ share_tamper \in {"hash_value", "merkle_root"}) =>
          /\ share_out.out.ok
          /\ share_out.out.value.content = share_content
          /\ share_tamper = "hash_value" => ~share_out.out.value.hash_verified
          /\ share_tamper = "merkle_root" => ~share_out.out.value.merkle_verified
          /\ share_link.row.download_count = share_out.before + 1
    /\ (/\ decrypt_out.done
        /\ item_tamper = "hash_value"
        /\ DecryptedText(data_item, decrypt_out.pair).ok) =>
          /\ decrypt_out.out.ok
          /\ decrypt_out.out.value.decrypted_text = data_item.original_content
          /\ ~decrypt_out.out.value.hash_verified

AuthenticationFailed ==
    [type |-> "ValueError",
     msg |-> "Authentication failed: data may have been tampered with"]

\* C15: for every plaintext, aes_decrypt and chacha20_decrypt handed, with
\* the key and nonce of the encryption, a ciphertext or tag other than the
\* one encrypt returned raise the authentication error and return no
\* plaintext; a decrypt_share whose decryption fails raises and leaves
\* download_count as it was.
C15_TamperRejected ==
    /\ (/\ p_pc = "decrypted"
        /\ p_alg \in {"aes", "chacha20"}
        /\ (p_args.ciphertext # p_enc.ciphertext \/ p_args.tag # p_enc.tag)) =>
          /\ ~p_out.ok
          /\ p_out.error = AuthenticationFailed
    /\ (share_out.done /\ ~DecryptedContent(share_link).ok) =>
          /\ ~share_out.out.ok
          /\ share_link.row.download_count = share_out.before

\* C16: for every plaintext P, aes_decrypt and chacha20_decrypt handed the
\* ciphertext, nonce and tag their encrypt function returned, with the key it
\* used (the returned key when none was supplied), return exactly P.
C16_AeadRoundTrip ==
    (p_pc = "decrypted" /\ p_alg \in {"aes", "chacha20"} /\ p_tamper = "none") =>
        /\ p_out.ok
        /\ p_out.value = p_plain

\* a text with a two-byte character, under the key the encryption returned
C16_Witness ==
    /\ p_pc = "decrypted" /\ p_alg = "chacha20" /\ p_tamper = "none"
    /\ p_plain = <<233, 65>>
    /\ p_enc.key = generate_aes_key(256, 2)
    /\ Len(B64Decode(p_enc.ciphertext)) = 3
    /\ p_out.ok /\ p_out.value = <<233, 65>>

\* what hybrid_decrypt raises for the arguments args with a changed tag
PayloadErrors(args) ==
    {hybrid_decrypt(args.ciphertext, args.encrypted_key, args.nonce, t,
                    args.private_key).error : t \in AlteredTags(args.tag)}

\* C17: hybrid_decrypt(hybrid_encrypt(P, pub), priv) returns P for a matching
\* key pair; with the private key of another pair it fails with an error of
\* a kind other than that of the error raised for a tampered ciphertext or
\* tag, so that the caller can tell the two apart.
C17_HybridErrors ==
    /\ (p_pc = "decrypted" /\ p_alg = "hybrid" /\ p_tamper = "none") =>
          (p_out.ok /\ p_out.value = p_plain)
    /\ (p_pc = "decrypted" /\ p_alg = "hybrid" /\ p_tamper = "private_key") =>
          /\ ~p_out.ok
          /\ \A e \in PayloadErrors(p_enc) : e.type # p_out.error.type

\* C18: a record encrypted under highly_sensitive (hybrid, signature
\* required) by one request is decrypted by a later request, served by
\* another EncryptionService object, to the original text with
\* hash_verified = True and signature_verified = True.
C18_CrossInstanceDecrypt ==
    (/\ decrypt_out.done
     /\ item_tamper = "none"
     /\ data_item.sensitivity_level = "highly_sensitive"
     /\ requires_asymmetric(item_policy)
     /\ item_policy.signature_required
     /\ item_policy.hash_algorithm \in {"SHA-256", "SHA-512"}) =>
        /\ decrypt_out.out.ok
        /\ decrypt_out.out.value.decrypted_text = data_item.original_content
        /\ decrypt_out.out.value.hash_verified
        /\ decrypt_out.out.value.signature_verified = "True"

\* the key and the cipher under which the stored tag was computed
UsedKey(item) == B64Decode(item.tag)[1].key

UsedAlgorithm(item) ==
    IF B64Decode(item.tag)[1].cipher # "AES-GCM" THEN B64Decode(item.tag)[1].cipher
    ELSE IF UsedKey(item).bits = 128 THEN "AES-128-GCM"
    ELSE IF UsedKey(item).bits = 192 THEN "AES-192-GCM"
    ELSE "AES-256-GCM"

\* the identifier of a policy's algorithms: the symmetric algorithm, made
\* "Hybrid-<symmetric>-<asymmetric>" for a policy that requires the hybrid path
PolicyIdentifier(policy) ==
    IF requires_asymmetric(policy)
    THEN "Hybrid-" \o policy.encryption_algorithm \o "-"
            \o policy.asymmetric_algorithm
    ELSE policy.encryption_algorithm

\* C19: for every tier, the symmetric algorithm and key size encrypt_and_store
\* uses and the algorithm identifier it stores are those of the policy
\* resolved for the tier (public: AES-128-GCM with a 128-bit key).
C19_PolicyAlgorithmUsed ==
    data_item.exists =>
        /\ UsedKey(data_item).bits = item_policy.key_size
        /\ UsedAlgorithm(data_item) = item_policy.encryption_algorithm
        /\ data_item.encryption_algorithm = PolicyIdentifier(item_policy)

\* C20: a lookup for a tier without a policy row is never defaulted:
\* encrypt_and_store, requires_signature, requires_hybrid_encryption,
\* get_hash_algorithm and get_mfa_requirement each raise instead of returning
\* a value.
C20_NoSilentDefault ==
    /\ (encrypt_out.done /\ ~item_policy.exists) => ~encrypt_out.out.ok
    /\ \A l \in LookupLevels :
          ~get_policy(policies, l).exists =>
              /\ ~EncryptAndStore(policies, <<65>>, l, 1,
                                  generate_aes_key(256, 1), 1).ok
              /\ ~requires_signature(policies, l).ok
              /\ ~requires_hybrid_encryption(policies, l).ok
              /\ ~get_hash_algorithm(policies, l).ok
              /\ ~get_mfa_requirement(policies, l).ok

(* --------------------------- policy claims ----------------------------- *)
\* C21: for every policy reachable by seeding and by update_policy,
\* asymmetric_algorithm is set if and only if encrypt_and_store takes the
\* hybrid path for that tier.
C21_AsymmetricIffHybrid ==
    /\ \A l \in Levels :
          policies[l].exists =>
              (policies[l].asymmetric_algorithm # NoneStr
                  <=> requires_asymmetric(policies[l]))
    /\ data_item.exists =>
          (item_policy.asymmetric_algorithm # NoneStr
              <=> IsHybridName(data_item.encryption_algorithm))

\* C22: for every policy reachable through update_policy, the hash_value
\* stored by encrypt_and_store is the digest of the content under the stored
\* hash_algorithm, and decrypt_data on the unmodified record (decrypted by the
\* symmetric path) returns the original text with hash_verified = True and
\* raises no error.
C22_HashUnderStoredAlgorithm ==
    /\ data_item.exists /\ item_tamper = "none" =>
          verify_hash(data_item.original_content, data_item.hash_value,
                      data_item.hash_algorithm) = Return(TRUE)
    /\ (/\ decrypt_out.done
        /\ item_tamper = "none"
        /\ ~IsHybridName(data_item.encryption_algorithm)) =>
          /\ decrypt_out.out.ok
          /\ decrypt_out.out.value.decrypted_text = data_item.original_content
          /\ decrypt_out.out.value.hash_verified

(* ----------------------- share lifecycle claims ------------------------ *)
\* the rows a call turned from active to inactive
TurnedInactive == {k \in Tokens : links[k].is_active /\ ~links'[k].is_active}

\* every row is as before in every field but is_active, and no row became
\* active
OnlyDeactivations ==
    \A k \in Tokens :
        /\ links'[k] = [links[k] EXCEPT !.is_active = links'[k].is_active]
        /\ links'[k].is_active => links[k].is_active

C24_OwnerOrAdminOnly ==
    (/\ a_item.exists
     /\ a_out.status # 0
     /\ a_item.user_id # a_user.id
     /\ a_user.role # "admin") =>
        (a_out.status = 403 /\ ~a_out.called)

(* ------------------------- rate limiter claims ------------------------- *)
\* the block of an email is in force / has run out
BlockInForce(email) == blocked[email] # None /\ l_now < blocked[email]
BlockExpired(email) == blocked[email] # None /\ l_now >= blocked[email]

\* the failures recorded for an email within the last five minutes
EarlierFailures(email) ==
    Cardinality({i \in DOMAIN failed_attempts[email] :
                    l_now - failed_attempts[email][i] < FailureWindow})

C26_SevereTierReached ==
    \A email \in Emails :
        fails_now[email] >= SevereFailures =>
            /\ blocked[email] # None
            /\ blocked[email] = l_now + SevereBlock

\* C27: whitelisted users are always allowed: in every reachable state of the
\* limiter, check_login_attempt returns allowed for an email or IP that is in
\* the whitelist, and records no failed attempt for it.
C27_WhitelistedAlwaysAllowed ==
    [][\A email \in Emails, ip_address \in IPs, success \in BOOLEAN :
          (/\ check_login_attempt(email, ip_address, success)
           /\ (email \in whitelist \/ ip_address \in whitelist)) =>
              /\ l_out'.allowed
              /\ \/ failed_attempts'[email] = failed_attempts[email]
                 \/ failed_attempts'[email] = <<>>]_vars

IpOps == IPs \X Operations

\* the entries of a timestamp list less than a minute away from timestamp t
SameWindow(timestamps, t) ==
    {i \in DOMAIN timestamps :
        /\ timestamps[i] - t < RateWindow
        /\ t - timestamps[i] < RateWindow}

\* C28: for every (IP, operation) pair and every interleaving of concurrent
\* callers, check_ip_rate allows at most `limit` calls within any one-minute
\* window: the recorded list never holds more than `limit` entries younger
\* than one minute, a denied call records nothing (the list is only pruned,
\* or appended to by an allowed call), and no allowed call's record is lost
\* (the allowed calls younger than a minute are the recorded ones).
C28_RateWithinLimit ==
    /\ [](\A k \in IpOps :
            /\ Len(Recent(suspicious_ips[k], l_now, RateWindow)) <= RateLimit
            /\ \A i \in DOMAIN allowed_calls[k] :
                  Cardinality(SameWindow(allowed_calls[k],
                                         allowed_calls[k][i])) <= RateLimit
            /\ Recent(allowed_calls[k], l_now, RateWindow)
                  = Recent(suspicious_ips[k], l_now, RateWindow))
    /\ [][\A k \in IpOps :
            \/ UNCHANGED <<suspicious_ips[k], allowed_calls[k]>>
            \/ /\ suspicious_ips'[k]
                     = Recent(suspicious_ips[k], l_now, RateWindow)
               /\ allowed_calls'[k] = allowed_calls[k]
            \/ \E t \in Threads :
                  /\ t_pc[t] = "record" /\ t_pc'[t] = "idle"
                  /\ t_call[t].key = k
                  /\ Len(suspicious_ips[k]) < RateLimit
                  /\ suspicious_ips'[k]
                        = Append(suspicious_ips[k], t_call[t].now)
                  /\ allowed_calls'[k]
                        = Append(allowed_calls[k], t_call[t].now)]_vars

\* a call was allowed in an earlier minute and one in this minute, and a
\* further caller holds the lock in front of a full list: it will be denied
C28_Witness ==
    \E k \in IpOps, t \in Threads :
        /\ Len(allowed_calls[k]) = 2
        /\ t_pc[t] = "check" /\ t_call[t].key = k /\ lock = t
        /\ Len(suspicious_ips[k]) >= RateLimit
        /\ \E u \in Threads \ {t} : t_pc[u] = "idle"

\* C29: inaccessibility of a share link is permanent: once can_access() is
\* false for a link it stays false after every later step of decrypt_share,
\* cleanup_expired_shares and deactivate_share, because is_active never goes
\* from false to true, download_count never decreases, and expiration_time
\* and max_downloads never change.
C29_InaccessibleForGood ==
    [][\A t \in Tokens :
          links[t].exists =>
              /\ ~CanAccess(links[t], now) => ~CanAccess(links'[t], now')
              /\ ~links[t].is_active => ~links'[t].is_active
              /\ links'[t].download_count >= links[t].download_count
              /\ links'[t].expiration_time = links[t].expiration_time
              /\ links'[t].max_downloads = links[t].max_downloads]_vars

\* C30: verify_integrity(content', root, C) returns True only when content'
\* equals the content from which root was computed with chunk size C: two
\* different buffers never share a Merkle root, in particular a buffer and
\* the same buffer with its last full chunk appended again.
C30_RootIdentifiesContent ==
    m_pc # "build" =>
        \A content \in Buffers :
            VerifyIntegrity(content, root, chunk_size) => content = data

====
